---------------------------- MODULE Spec2Model ----------------------------
(***************************************************************************)
(* A model of cluster.js: the DBSCAN run of src/lib/algorithms/dbscan.js   *)
(* (lines 31-94) and the k-means module that follows it in the same file   *)
(* (lines 137-317), with util.distance of src/lib/util.js.                 *)
(*                                                                         *)
(* Conventions of the model:                                               *)
(*  - JavaScript arrays are sequences, so every index is the source's      *)
(*    index plus one;                                                      *)
(*  - a point (a datum) is a function from its dimension names to          *)
(*    integers; a record's "obj" is a reference, modelled as the index of  *)
(*    the datum in the caller's array `data`;                              *)
(*  - eps is a rational counted in halves (eps = 3 stands for 1.5), so     *)
(*    that `dist < eps` is decided exactly on the squared distance;        *)
(*  - the cluster label `false` is Unassigned, 'N' is Noise, and the       *)
(*    cache array `neighbors` maps an index to "undefined", "true" or      *)
(*    "false" (=== true and === false in the source);                      *)
(*  - a k-means mean is kept as the sum and the size of its cluster, the   *)
(*    exact value of the centroid the source computes in floating point;   *)
(*  - line 40, `(tpt.neighbors[i] === false) && return;`, is read as       *)
(*    `if (tpt.neighbors[i] === false) return;`.                           *)
(***************************************************************************)
EXTENDS Integers, Sequences, FiniteSets, TLC

\* Bounds of the model.
MaxPts == 4
MaxCoord == 2
MaxEps == 3
MaxMinPts == 3
StackLimit == 6
MaxKPts == 3
MaxMeans == 2
MaxLimit == 2
MaxRound == 3

\* The defaults of k-means' init.
DefaultNumMeans == 3
DefaultIterationLimit == 100

\* The cluster labels that are not cluster identifiers.
Unassigned == 0
Noise == -1

VARIABLES
    data,       \* the caller's array of points
    eps,        \* run's eps, in halves
    minPoints,  \* run's minPoints
    metadata,   \* the metadata table
    cluster,    \* run's cluster counter
    pending,    \* the list _.where(metadata, {visited: false}) the scan iterates
    scanIdx,    \* position of the scan in pending
    stack,      \* the active expandCluster calls, innermost last
    pc,         \* "running", "returned" or "overflow"
    distCalls,  \* history: number of util.distance calls per ordered pair
    seeds,      \* history: seeds[c] is the point the scan seeded cluster c with
    last,       \* history: what the last step did
    epsWide,    \* a second eps, at least eps, for the comparison of two runs
    outcome,    \* the tables two runs returned, <<>> before they are run
    inputData,  \* k-means: the input with its defaults
    kdata,      \* k-means: the module's `data`
    means,      \* k-means: the current means
    clusters,   \* k-means: the current clusters, lists of data indices
    meansChanged,  \* k-means: did the last updateMeans change a mean
    round,      \* k-means: the number of steps since init
    kpc         \* k-means: "unset", "ready", "loop", "returned" or "thrown"

vars == <<data, eps, minPoints, metadata, cluster, pending, scanIdx, stack,
          pc, distCalls, seeds, last, epsWide, outcome,
          inputData, kdata, means, clusters, meansChanged, round, kpc>>

dbscanVars == <<data, eps, minPoints, metadata, cluster, pending, scanIdx,
                stack, pc, distCalls, seeds, last>>

kmeansVars == <<inputData, kdata, means, clusters, meansChanged, round, kpc>>

-----------------------------------------------------------------------------
(* Points and util.distance *)

Dims == {"x"}

Points == [Dims -> 0..MaxCoord]

RECURSIVE SumSq(_, _, _)
SumSq(obj1, obj2, keys) ==
    IF keys = {} THEN 0
    ELSE LET key == CHOOSE k \in keys : TRUE
         IN  (obj2[key] - obj1[key]) * (obj2[key] - obj1[key])
                 + SumSq(obj1, obj2, keys \ {key})

RECURSIVE SumDiff(_, _, _)
SumDiff(obj1, obj2, keys) ==
    IF keys = {} THEN 0
    ELSE LET key == CHOOSE k \in keys : TRUE
         IN  (obj2[key] - obj1[key]) + SumDiff(obj1, obj2, keys \ {key})

\* A variant of distanceSq: the differences are summed without being squared.
distanceNotSquared(obj1, obj2) == SumDiff(obj1, obj2, DOMAIN obj1)

\* The square of util.distance(obj1, obj2): the reduce runs over obj1's keys.
distanceSq(obj1, obj2) == SumSq(obj1, obj2, DOMAIN obj1)

\* A variant of DistLess: `dist <= eps`.
DistLessOrEqual(obj1, obj2, e) == 4 * distanceSq(obj1, obj2) <= e * e

\* `dist < eps` with dist = Math.sqrt(distanceSq) and eps = e / 2.
DistLess(obj1, obj2, e) == 4 * distanceSq(obj1, obj2) < e * e

-----------------------------------------------------------------------------
(* underscore helpers *)

Indices(seq) == 1..Len(seq)

Range(seq) == {seq[k] : k \in Indices(seq)}

RECURSIVE AppendNew(_, _)
AppendNew(a, b) ==
    IF b = <<>> THEN a
    ELSE AppendNew(IF Head(b) \in Range(a) THEN a ELSE Append(a, Head(b)),
                   Tail(b))

\* _.union(a, b): the unique values, in order of first occurrence.
Union(a, b) == AppendNew(AppendNew(<<>>, a), b)

RECURSIVE WhereFrom(_, _)
WhereFrom(md, k) ==
    IF k > Len(md) THEN <<>>
    ELSE IF md[k].visited = FALSE THEN <<k>> \o WhereFrom(md, k + 1)
    ELSE WhereFrom(md, k + 1)

\* _.where(metadata, {visited: false}): a new list, built once.
WhereUnvisited(md) == WhereFrom(md, 1)

-----------------------------------------------------------------------------
(* neighborhood *)

NoNeighbors(n) == [j \in 1..n |-> "undefined"]

\* A variant of NeighStep: the else branch of `dist < eps` stores nothing.
NeighStepNoFalse(acc, dat, p, i, e, ti) ==
    LET tpt == acc.metadata[ti]
        pt  == acc.metadata[p]
    IN  IF tpt.neighbors[i] = "false" THEN acc
        ELSE IF tpt.neighbors[i] = "true" \/ ti = i
             THEN [acc EXCEPT !.neigh = Append(@, ti)]
        ELSE IF DistLess(dat[pt.obj], dat[tpt.obj], e)
             THEN [acc EXCEPT !.metadata[p].neighbors[ti] = "true",
                              !.neigh = Append(@, ti),
                              !.computed = @ \cup {ti}]
        ELSE [acc EXCEPT !.computed = @ \cup {ti}]

\* A variant of NeighStep: without the test `ti === i`.
NeighStepNoSelfTest(acc, dat, p, i, e, ti) ==
    LET tpt == acc.metadata[ti]
        pt  == acc.metadata[p]
    IN  IF tpt.neighbors[i] = "false" THEN acc
        ELSE IF tpt.neighbors[i] = "true"
             THEN [acc EXCEPT !.neigh = Append(@, ti)]
        ELSE IF DistLess(dat[pt.obj], dat[tpt.obj], e)
             THEN [acc EXCEPT !.metadata[p].neighbors[ti] = "true",
                              !.neigh = Append(@, ti),
                              !.computed = @ \cup {ti}]
        ELSE [acc EXCEPT !.metadata[p].neighbors[ti] = "false",
                         !.computed = @ \cup {ti}]

\* One iteration of neighborhood's _.each, for table entry ti.
NeighStep(acc, dat, p, i, e, ti) ==
    LET tpt == acc.metadata[ti]
        pt  == acc.metadata[p]
    IN  IF tpt.neighbors[i] = "false" THEN acc
        ELSE IF tpt.neighbors[i] = "true" \/ ti = i
             THEN [acc EXCEPT !.neigh = Append(@, ti)]
        ELSE IF DistLess(dat[pt.obj], dat[tpt.obj], e)
             THEN [acc EXCEPT !.metadata[p].neighbors[ti] = "true",
                              !.neigh = Append(@, ti),
                              !.computed = @ \cup {ti}]
        ELSE [acc EXCEPT !.metadata[p].neighbors[ti] = "false",
                         !.computed = @ \cup {ti}]

RECURSIVE NeighFrom(_, _, _, _, _, _)
NeighFrom(acc, dat, p, i, e, ti) ==
    IF ti > Len(acc.metadata) THEN acc
    ELSE NeighFrom(NeighStep(acc, dat, p, i, e, ti), dat, p, i, e, ti + 1)

\* neighborhood(metadata, pt, i, eps), pt being the record metadata[p]:
\* the list returned, the table with pt's cache filled in, and the entries
\* whose distance to pt was computed.
neighborhood(md, dat, p, i, e) ==
    NeighFrom([neigh |-> <<>>, metadata |-> md, computed |-> {}],
              dat, p, i, e, 1)

-----------------------------------------------------------------------------
(* run and expandCluster, one step of the run at a time.  A run's state is *)
(* the record m of the variables; each step operator gives the next one.   *)

\* A variant of NewRecord: every record refers to the first datum.
NewRecordFirstObj(n, index) ==
    [visited |-> FALSE, neighbors |-> NoNeighbors(n), cluster |-> Unassigned,
     obj |-> 1]

\* run's _.map: one record per datum, in input order.
NewRecord(n, index) ==
    [visited |-> FALSE, neighbors |-> NoNeighbors(n), cluster |-> Unassigned,
     obj |-> index]

MakeMetadata(dat) == [index \in 1..Len(dat) |-> NewRecord(Len(dat), index)]

NoCalls(n) == [pr \in (1..n) \X (1..n) |-> 0]

AddCalls(dc, p, computed) ==
    [pr \in DOMAIN dc |->
        IF pr[1] = p /\ pr[2] \in computed THEN dc[pr] + 1 ELSE dc[pr]]

Idle == [op |-> "start", pt |-> 0, i |-> 0, called |-> FALSE, neigh |-> <<>>,
         computed |-> {}, wasVisited |-> FALSE, pushed |-> FALSE,
         before |-> Unassigned]

\* The state after run's lines 74-79: the table built, the scan not begun.
Start(dat, e, minPts) ==
    [data |-> dat, eps |-> e, minPoints |-> minPts,
     metadata |-> MakeMetadata(dat), cluster |-> 0,
     pending |-> WhereUnvisited(MakeMetadata(dat)), scanIdx |-> 1,
     stack |-> <<>>, pc |-> "running",
     distCalls |-> NoCalls(Len(dat)), seeds |-> <<>>, last |-> Idle]

\* Variants of SparseAtScan: `<=` for `<`, and the comparison reversed.
SparseAtScanOrEqual(len, minPts) == len <= minPts

SparseAtScanReversed(len, minPts) == len > minPts

\* A variant of SparseAtScan: the point itself is left out of the count.
SparseAtScanExcludingSelf(len, minPts) == len - 1 < minPts

\* `neigh.length < minPoints` of the scan (line 83).
SparseAtScan(len, minPts) == len < minPts

\* A variant of DenseInExpansion: `>=`, the comparison of the scan.
DenseInExpansionOrEqual(len, minPts) == len >= minPts

\* `nptNeigh.length > minPts` of the expansion (line 65).
DenseInExpansion(len, minPts) == len > minPts

\* A variant of NextCluster: the counter is set to 1, not incremented.
FirstCluster(c) == 1

\* `cluster++` (line 86).
NextCluster(c) == c + 1

\* A variant of AlreadyVisited: the visited flag is not consulted.
NeverVisited(npt) == FALSE

\* `npt.visited` of `if (!npt.visited)` (line 61).
AlreadyVisited(npt) == npt.visited

\* A variant of IsUnassigned: the noise label counts as no label.
IsUnassignedOrNoise(label) == label = Unassigned \/ label = Noise

\* `!npt.cluster` (line 60): false is falsy, 'N' and every identifier are not.
IsUnassigned(label) == label = Unassigned

\* A variant of AssignCluster: the label is overwritten whatever it was.
AssignClusterAlways(npt, c) == [npt EXCEPT !.cluster = c]

\* A variant of AssignCluster: the label is given to unvisited points only.
AssignClusterIfUnvisited(npt, c) ==
    IF ~npt.visited /\ npt.cluster = Unassigned
    THEN [npt EXCEPT !.cluster = c] ELSE npt

\* `if (!npt.cluster) { npt.cluster = cluster; }` (line 60).
AssignCluster(npt, c) ==
    IF IsUnassigned(npt.cluster) THEN [npt EXCEPT !.cluster = c] ELSE npt

\* A call of expandCluster: a new frame, or the engine's stack overflow.
Call(m, frame) ==
    IF Len(m.stack) >= StackLimit THEN [m EXCEPT !.pc = "overflow"]
    ELSE [m EXCEPT !.stack = Append(@, frame)]

CanScan(m) ==
    m.pc = "running" /\ m.stack = <<>> /\ m.scanIdx <= Len(m.pending)

\* One call of the scan's callback (lines 80-89), up to the call of
\* expandCluster.
ScanPoint(m) ==
    LET i   == m.scanIdx
        p   == m.pending[i]
        md1 == [m.metadata EXCEPT ![p].visited = TRUE]
        nb  == neighborhood(md1, m.data, p, i, m.eps)
        sparse == SparseAtScan(Len(nb.neigh), m.minPoints)
        m1  == [m EXCEPT
                  !.scanIdx = @ + 1,
                  !.distCalls = AddCalls(@, p, nb.computed),
                  !.last = [op |-> IF sparse THEN "noise" ELSE "seed",
                            pt |-> p, i |-> i, called |-> TRUE,
                            neigh |-> nb.neigh, computed |-> nb.computed,
                            wasVisited |-> m.metadata[p].visited,
                            pushed |-> ~sparse,
                            before |-> m.metadata[p].cluster]]
    IN  IF sparse
        THEN [m1 EXCEPT !.metadata = [nb.metadata EXCEPT ![p].cluster = Noise]]
        ELSE Call([m1 EXCEPT !.metadata = nb.metadata,
                             !.cluster = NextCluster(@),
                             !.seeds = Append(@, p)],
                  [cluster |-> NextCluster(m.cluster), neigh |-> nb.neigh,
                   pos |-> 1])

Top(m) == m.stack[Len(m.stack)]

CanExpand(m) ==
    m.pc = "running" /\ m.stack # <<>> /\ Top(m).pos <= Len(Top(m).neigh)

\* One call of expandCluster's callback (lines 58-70), up to the recursive
\* call.
ExpandPoint(m) ==
    LET d    == Len(m.stack)
        top  == m.stack[d]
        ni   == top.neigh[top.pos]
        md1  == [m.metadata EXCEPT ![ni] = AssignCluster(@, top.cluster)]
        seen == AlreadyVisited(md1[ni])
        md2  == [md1 EXCEPT ![ni].visited = TRUE]
        nb   == neighborhood(md2, m.data, ni, ni, m.eps)
        dense == DenseInExpansion(Len(nb.neigh), m.minPoints)
        next == [m EXCEPT !.stack[d].pos = @ + 1]
        info == [op |-> "skip", pt |-> ni, i |-> ni, called |-> FALSE,
                 neigh |-> <<>>, computed |-> {}, wasVisited |-> seen,
                 pushed |-> FALSE, before |-> m.metadata[ni].cluster]
    IN  IF seen
        THEN [next EXCEPT !.metadata = md1, !.last = info]
        ELSE LET m1 == [next EXCEPT
                          !.metadata = nb.metadata,
                          !.distCalls = AddCalls(@, ni, nb.computed),
                          !.last = [info EXCEPT
                                      !.op = IF dense THEN "recurse"
                                             ELSE "visit",
                                      !.called = TRUE,
                                      !.neigh = nb.neigh,
                                      !.computed = nb.computed,
                                      !.pushed = dense]]
             IN  IF dense
                 THEN Call(m1, [cluster |-> top.cluster,
                                neigh |-> Union(top.neigh, nb.neigh),
                                pos |-> 1])
                 ELSE m1

CanExpandReturn(m) ==
    m.pc = "running" /\ m.stack # <<>> /\ Top(m).pos > Len(Top(m).neigh)

\* expandCluster's _.each is through: the call returns to its caller.
ExpandDone(m) ==
    [m EXCEPT !.stack = SubSeq(@, 1, Len(@) - 1),
              !.last = [Idle EXCEPT !.op = "return"]]

CanReturn(m) ==
    m.pc = "running" /\ m.stack = <<>> /\ m.scanIdx > Len(m.pending)

\* `return metadata` (line 91).
ReturnMetadata(m) ==
    [m EXCEPT !.pc = "returned", !.last = [Idle EXCEPT !.op = "returned"]]

\* The next state of a run that has not ended.
Step(m) ==
    IF CanScan(m) THEN ScanPoint(m)
    ELSE IF CanExpand(m) THEN ExpandPoint(m)
    ELSE IF CanExpandReturn(m) THEN ExpandDone(m)
    ELSE ReturnMetadata(m)

RECURSIVE RunFrom(_)
RunFrom(m) == IF m.pc # "running" THEN m ELSE RunFrom(Step(m))

\* run(data, eps, minPoints) as a function: the state in which it ends.
run(dat, e, minPts) == RunFrom(Start(dat, e, minPts))

-----------------------------------------------------------------------------
(* The run as a state machine *)

\* The k-means module's variables before init: undefined in the source.
KUnset ==
    /\ inputData = <<>>
    /\ kdata = <<>>
    /\ means = <<>>
    /\ clusters = <<>>
    /\ meansChanged = FALSE
    /\ round = 0
    /\ kpc = "unset"


Inputs == UNION {[1..n -> Points] : n \in 0..MaxPts}

State ==
    [data |-> data, eps |-> eps, minPoints |-> minPoints,
     metadata |-> metadata, cluster |-> cluster, pending |-> pending,
     scanIdx |-> scanIdx, stack |-> stack, pc |-> pc,
     distCalls |-> distCalls, seeds |-> seeds, last |-> last]

Install(m) ==
    /\ data' = m.data
    /\ eps' = m.eps
    /\ minPoints' = m.minPoints
    /\ metadata' = m.metadata
    /\ cluster' = m.cluster
    /\ pending' = m.pending
    /\ scanIdx' = m.scanIdx
    /\ stack' = m.stack
    /\ pc' = m.pc
    /\ distCalls' = m.distCalls
    /\ seeds' = m.seeds
    /\ last' = m.last
    /\ UNCHANGED <<epsWide, outcome>>
    /\ UNCHANGED kmeansVars

InitRun(dat, e, minPts) ==
        LET m == Start(dat, e, minPts)
        IN  /\ data = m.data
            /\ eps = m.eps
            /\ minPoints = m.minPoints
            /\ metadata = m.metadata
            /\ cluster = m.cluster
            /\ pending = m.pending
            /\ scanIdx = m.scanIdx
            /\ stack = m.stack
            /\ pc = m.pc
            /\ distCalls = m.distCalls
            /\ seeds = m.seeds
            /\ last = m.last

Init ==
    /\ \E dat \in Inputs, e \in 1..MaxEps, minPts \in 1..MaxMinPts :
           InitRun(dat, e, minPts)
    /\ epsWide = eps
    /\ outcome = <<>>
    /\ KUnset

\* The scan reaches a point with fewer than minPoints neighbours.
ScanNoise ==
    /\ CanScan(State)
    /\ ScanPoint(State).last.op = "noise"
    /\ Install(ScanPoint(State))

\* The scan reaches a point it takes for a cluster seed.
ScanSeed ==
    /\ CanScan(State)
    /\ ScanPoint(State).last.op = "seed"
    /\ Install(ScanPoint(State))

\* The expansion reaches a point that was visited before.
ExpandSkip ==
    /\ CanExpand(State)
    /\ ExpandPoint(State).last.op = "skip"
    /\ Install(ExpandPoint(State))

\* The expansion visits a point and does not recurse.
ExpandVisit ==
    /\ CanExpand(State)
    /\ ExpandPoint(State).last.op = "visit"
    /\ Install(ExpandPoint(State))

\* The expansion visits a point and recurses on the extended frontier.
ExpandRecurse ==
    /\ CanExpand(State)
    /\ ExpandPoint(State).last.op = "recurse"
    /\ Install(ExpandPoint(State))

ExpandReturn ==
    /\ CanExpandReturn(State)
    /\ Install(ExpandDone(State))

RunReturn ==
    /\ CanReturn(State)
    /\ Install(ReturnMetadata(State))

Next ==
    \/ ScanNoise
    \/ ScanSeed
    \/ ExpandSkip
    \/ ExpandVisit
    \/ ExpandRecurse
    \/ ExpandReturn
    \/ RunReturn

Spec == Init /\ [][Next]_vars

-----------------------------------------------------------------------------
(* Two runs on the same points and minPoints, with eps and a larger eps *)

MonoInit ==
    /\ \E dat \in Inputs, e \in 1..MaxEps, minPts \in 1..MaxMinPts :
           InitRun(dat, e, minPts)
    /\ epsWide \in eps..MaxEps
    /\ outcome = <<>>
    /\ KUnset

CompareRuns ==
    /\ outcome = <<>>
    /\ outcome' = <<run(data, eps, minPoints).metadata,
                    run(data, epsWide, minPoints).metadata>>
    /\ UNCHANGED <<dbscanVars, epsWide, kmeansVars>>

MonoNext == CompareRuns

MonoSpec == MonoInit /\ [][MonoNext]_vars

-----------------------------------------------------------------------------
(* k-means (lines 137-317 of dbscan.js) *)

KDefaults ==
    [numMeans |-> DefaultNumMeans, kmeanspp |-> TRUE,
     iterationLimit |-> DefaultIterationLimit]

\* _.defaults(input, {...}): the keys input lacks are filled in.
Defaults(input, defaults) ==
    [key \in DOMAIN input \cup DOMAIN defaults |->
        IF key \in DOMAIN input THEN input[key] ELSE defaults[key]]

\* A mean whose value is the datum itself.
MeanOf(datum) == [sum |-> datum, len |-> 1]

\* The sum over obj1's keys of (mean[key] - val)^2, times mean.len^2: the
\* square of distance(datum, mean) scaled by the square of the mean's size.
RECURSIVE MeanSumSq(_, _, _)
MeanSumSq(datum, mean, keys) ==
    IF keys = {} THEN 0
    ELSE LET key == CHOOSE k \in keys : TRUE
             diff == mean.sum[key] - datum[key] * mean.len
         IN  diff * diff + MeanSumSq(datum, mean, keys \ {key})

ScaledDistSq(datum, mean) == MeanSumSq(datum, mean, DOMAIN datum)

\* distance(datum, a) < distance(datum, b), for means with keys.
Nearer(datum, a, b) ==
    ScaledDistSq(datum, a) * b.len * b.len
        < ScaledDistSq(datum, b) * a.len * a.len

\* _.min over the means by distance to datum: the first mean no other mean
\* is nearer than; a mean without keys ({}) gives NaN and is never taken.
\* 0 when no mean has keys.
NearestMean(datum, ms) ==
    LET usable == {k \in Indices(ms) : ms[k].len > 0}
        best   == {k \in usable :
                      /\ \A j \in usable : j < k => Nearer(datum, ms[k], ms[j])
                      /\ \A j \in usable : j > k => ~Nearer(datum, ms[j], ms[k])}
    IN  IF usable = {} THEN 0 ELSE CHOOSE k \in best : TRUE

RECURSIVE MinDistSq(_, _, _)
MinDistSq(datum, ms, i) ==
    IF i = 1 THEN ScaledDistSq(datum, ms[1])
    ELSE LET rest == MinDistSq(datum, ms, i - 1)
             this == ScaledDistSq(datum, ms[i])
         IN  IF this < rest THEN this ELSE rest

\* initMeanspp's weights after the _.each for the next mean: the running sum
\* of the squared distance of each datum to its nearest chosen mean.
RECURSIVE Weights(_, _, _)
Weights(dat, ms, index) ==
    IF index = 0 THEN <<>>
    ELSE LET before == Weights(dat, ms, index - 1)
             prev   == IF index = 1 THEN 0 ELSE before[index - 1]
         IN  Append(before, prev + MinDistSq(dat[index], ms, Len(ms)))

\* _.find(_.zip(weights, data), rand <= elem[0]): the first such index.
FindWeighted(weights, rand) ==
    CHOOSE k \in Indices(weights) :
        /\ rand <= weights[k]
        /\ \A j \in 1..(k - 1) : ~(rand <= weights[j])

\* The lists of means initMeans can return: each mean any datum.
initMeans(dat, numMeans) ==
    {[k \in 1..numMeans |-> MeanOf(dat[pick[k]])] :
        pick \in [1..numMeans -> Indices(dat)]}

\* The lists of means initMeanspp can return: the first mean any datum, each
\* further mean found by a random number in 0..last(weights).
RECURSIVE initMeanspp(_, _)
initMeanspp(dat, numMeans) ==
    IF numMeans = 1 THEN {<<MeanOf(dat[k])>> : k \in Indices(dat)}
    ELSE UNION {
            LET weights == Weights(dat, ms, Len(dat))
            IN  {Append(ms, MeanOf(dat[FindWeighted(weights, rand)])) :
                    rand \in 0..weights[Len(weights)]}
            : ms \in initMeanspp(dat, numMeans - 1)}

\* assignClusters(data, means): each index goes to the cluster of its nearest
\* mean, in data order.
RECURSIVE assignFrom(_, _, _)
assignFrom(dat, ms, index) ==
    IF index = 0 THEN [k \in Indices(ms) |-> <<>>]
    ELSE LET before == assignFrom(dat, ms, index - 1)
             meanid == NearestMean(dat[index], ms)
         IN  [before EXCEPT ![meanid] = Append(@, index)]

assignClusters(dat, ms) == assignFrom(dat, ms, Len(dat))

RECURSIVE SumOver(_, _, _)
SumOver(dat, cl, key) ==
    IF cl = <<>> THEN 0 ELSE dat[Head(cl)][key] + SumOver(dat, Tail(cl), key)

\* The centroid of a cluster; the mean {} of an empty cluster has len 0.
Centroid(dat, cl) ==
    [sum |-> [key \in Dims |-> SumOver(dat, cl, key)], len |-> Len(cl)]

\* `v !== oldmeans[clindex][k]` for some key of the new mean.
MeanDiffers(new, old) ==
    /\ new.len > 0
    /\ \/ old.len = 0
       \/ \E key \in Dims : new.sum[key] * old.len # old.sum[key] * new.len

\* updateMeans(data, oldmeans, clusters): the new means.
updateMeans(dat, oldmeans, cls) ==
    [clindex \in Indices(cls) |-> Centroid(dat, cls[clindex])]

\* The value updateMeans leaves in meansChanged.
updateChanged(dat, oldmeans, cls) ==
    \E clindex \in Indices(cls) :
        MeanDiffers(Centroid(dat, cls[clindex]), oldmeans[clindex])

\* init(input) with the means ms it drew.
InitWith(input, ms) ==
    /\ inputData' = Defaults(input, KDefaults)
    /\ kdata' = input.data
    /\ clusters' = <<>>
    /\ meansChanged' = FALSE
    /\ round' = 0
    /\ means' = ms

InitMeansOf(input) ==
    LET full == Defaults(input, KDefaults)
    IN  IF full.kmeanspp THEN initMeanspp(full.data, full.numMeans)
        ELSE initMeans(full.data, full.numMeans)

\* The inputs of the model: data and any of the three optional keys.
MakeInput(dat, given, numMeans, pp, limit) ==
    [key \in given \cup {"data"} |->
        CASE key = "data" -> dat
          [] key = "numMeans" -> numMeans
          [] key = "kmeanspp" -> pp
          [] key = "iterationLimit" -> limit]

KData == UNION {[1..n -> Points] : n \in 1..MaxKPts}

KInputs ==
    {MakeInput(dat, given, numMeans, pp, limit) :
        dat \in KData,
        given \in SUBSET {"numMeans", "kmeanspp", "iterationLimit"},
        numMeans \in 1..MaxMeans, pp \in BOOLEAN, limit \in 1..MaxLimit}

\* The caller calls init(input).  init overwrites every variable of the
\* module, so a call in a later state reaches nothing a first call does not.
KInit ==
    /\ kpc = "unset"
    /\ \E input \in KInputs : \E ms \in InitMeansOf(input) : InitWith(input, ms)
    /\ kpc' = "ready"
    /\ UNCHANGED <<dbscanVars, epsWide, outcome>>

\* The caller calls run(input): init, then the while loop is reached.
KRun ==
    /\ kpc = "unset"
    /\ \E input \in KInputs : \E ms \in InitMeansOf(input) : InitWith(input, ms)
    /\ kpc' = "loop"
    /\ UNCHANGED <<dbscanVars, epsWide, outcome>>

\* step(): called by the caller at its own pace, or by run's loop when
\* `meansChanged && round < limit` holds.
KStep ==
    /\ \/ kpc \in {"ready", "returned"} /\ round < MaxRound
       \/ kpc = "loop" /\ meansChanged /\ round < inputData.iterationLimit
    /\ LET cls == assignClusters(kdata, means)
       IN  IF \E k \in Indices(kdata) : NearestMean(kdata[k], means) = 0
           THEN /\ kpc' = "thrown"
                /\ UNCHANGED <<clusters, means, meansChanged, round>>
           ELSE /\ clusters' = cls
                /\ means' = updateMeans(kdata, means, cls)
                /\ meansChanged' = updateChanged(kdata, means, cls)
                /\ round' = round + 1
                /\ kpc' = IF kpc = "loop" THEN "loop" ELSE "ready"
    /\ UNCHANGED <<inputData, kdata, dbscanVars, epsWide, outcome>>

\* run's loop condition is false: run returns.
KRunReturn ==
    /\ kpc = "loop"
    /\ ~(meansChanged /\ round < inputData.iterationLimit)
    /\ kpc' = "returned"
    /\ UNCHANGED <<inputData, kdata, means, clusters, meansChanged, round,
                   dbscanVars, epsWide, outcome>>

KInitState ==
    /\ InitRun(<<>>, 1, 1)
    /\ epsWide = eps
    /\ outcome = <<>>
    /\ KUnset

KNext ==
    \/ KInit
    \/ KRun
    \/ KStep
    \/ KRunReturn

KSpec == KInitState /\ [][KNext]_vars

-----------------------------------------------------------------------------
(* What the claims speak of, stated on the input alone *)

Returned == pc = "returned"

N == Len(data)

Label(k) == metadata[k].cluster

\* Point b lies within eps of point a: distance < eps, eps counted in halves.
Within(a, b) == 4 * distanceSq(data[a], data[b]) < eps * eps

\* Point b lies farther than eps from point a.
Beyond(a, b) == 4 * distanceSq(data[a], data[b]) > eps * eps

Neighbours(a) == {b \in 1..N : Within(a, b)}

IsCore(a) == Cardinality(Neighbours(a)) >= minPoints

Ascending(seq) == \A k, l \in Indices(seq) : k < l => seq[k] < seq[l]

RECURSIVE Closure(_, _)
Closure(S, coreOnly) ==
    LET T == S \cup {b \in 1..N : /\ coreOnly => IsCore(b)
                                  /\ \E a \in S : Within(a, b)}
    IN  IF T = S THEN S ELSE Closure(T, coreOnly)

\* The points joined to a by a chain of points, each within eps of the next.
Chained(a) == Closure({a}, FALSE)

\* The core points joined to the core point a by a chain of core points, each
\* within eps of the next.
CoreReachable(a) == IF IsCore(a) THEN Closure({a}, TRUE) ELSE {}

ClusterIds == {Label(k) : k \in 1..N} \ {Noise, Unassigned}

NoiseCount(md) == Cardinality({k \in 1..Len(md) : md[k].cluster = Noise})

-----------------------------------------------------------------------------
(* The claims *)

\* C1: when run returns, every record's label is the noise marker or a
\* positive cluster identifier; none is left unassigned.
C1_EveryPointLabeled ==
    Returned => \A k \in 1..N : Label(k) = Noise \/ Label(k) >= 1

C1_Witness ==
    /\ Returned
    /\ N >= 3
    /\ \E k \in 1..N : Label(k) = Noise
    /\ \E k \in 1..N : Label(k) >= 1

\* C2: when run returns, the identifiers carried by the records are exactly
\* 1..k with no gap, and every identifier the scan allocated labels a point.
C2_IdsContiguous ==
    Returned => /\ ClusterIds = 1..Cardinality(ClusterIds)
                /\ ClusterIds = 1..cluster

\* C3: when run returns, every point density-reachable from the point p that
\* seeded cluster c is labeled c.  Read in the claim's favour: only the core
\* points joined to p by a chain of core points are required to carry c.
C3_ReachableLabeled ==
    Returned => \A c \in 1..Len(seeds) :
                    \A q \in CoreReachable(seeds[c]) : Label(q) = c

\* C4: every call of neighborhood for index i returns exactly the indices
\* within eps of point i (strictly), i among them, each once, ascending.
C4_NeighborhoodExact ==
    last.called => /\ Range(last.neigh) = Neighbours(last.i)
                   /\ last.i \in Range(last.neigh)
                   /\ Ascending(last.neigh)

\* A call that computed some distances and took others from the cache, both
\* "true" and "false" entries among them.
C4_Witness ==
    /\ last.called
    /\ last.computed # {}
    /\ \E j \in 1..N \ {last.i} :
           j \notin last.computed /\ metadata[j].neighbors[last.i] = "true"
    /\ \E j \in 1..N : metadata[j].neighbors[last.i] = "false"

\* C5: with the points and minPoints fixed, the run with the larger eps
\* labels no more points noise than the run with the smaller eps.
C5_NoiseMonotone ==
    outcome # <<>> => NoiseCount(outcome[2]) <= NoiseCount(outcome[1])

\* Two runs with different eps, the wider one with fewer, but some, noise.
C5_Witness ==
    /\ outcome # <<>>
    /\ eps < epsWide
    /\ NoiseCount(outcome[2]) < NoiseCount(outcome[1])
    /\ NoiseCount(outcome[2]) > 0

\* What is left of the run, as three naturals: the table entries the scan
\* has not reached, the unvisited points, and the iterations and returns left
\* in the active expandCluster calls (plus one while the run has not ended).
ScanLeft == Len(pending) + 1 - scanIdx

UnvisitedLeft == Cardinality({k \in 1..N : ~metadata[k].visited})

RECURSIVE FrameWork(_, _)
FrameWork(st, d) ==
    IF d = 0 THEN 0
    ELSE 1 + (Len(st[d].neigh) + 1 - st[d].pos) + FrameWork(st, d - 1)

CallsLeft == FrameWork(stack, Len(stack)) + (IF pc = "running" THEN 1 ELSE 0)

\* The guard of some step of the run holds.
CanStep ==
    \/ CanScan(State)
    \/ CanExpand(State)
    \/ CanExpandReturn(State)
    \/ CanReturn(State)

\* C6: the run terminates.  Every step lowers <<ScanLeft, UnvisitedLeft,
\* CallsLeft>> in the lexicographic order of the naturals, so a run has
\* finitely many steps; it stops only by returning (never by overflowing the
\* call stack); and expandCluster is called recursively only in the step that
\* turns a point from unvisited to visited.
C6_Terminates ==
    /\ [](ScanLeft >= 0 /\ CallsLeft >= 0)
    /\ [][\/ ScanLeft' < ScanLeft
          \/ ScanLeft' = ScanLeft /\ UnvisitedLeft' < UnvisitedLeft
          \/ /\ ScanLeft' = ScanLeft
             /\ UnvisitedLeft' = UnvisitedLeft
             /\ CallsLeft' < CallsLeft]_vars
    /\ [](Returned \/ CanStep)
    /\ [][Len(stack') > Len(stack) /\ Len(stack) > 0
            => /\ ~metadata[last'.pt].visited
               /\ metadata'[last'.pt].visited]_vars

\* A chain of three expandCluster calls.
C6_Witness == Len(stack) >= 3 /\ last.op = "recurse"

\* Two groups with a gap larger than eps between them, each of at least
\* minPoints points that are pairwise within eps.
TwoGroups(G, H) ==
    /\ G # {} /\ H # {}
    /\ \A g \in G, h \in H : Beyond(g, h)
    /\ Cardinality(G) >= minPoints /\ Cardinality(H) >= minPoints
    /\ \A a, b \in G : Within(a, b)
    /\ \A a, b \in H : Within(a, b)

\* C7: two points with the same identifier are joined by a chain of points
\* each within eps of the next; so two groups with a gap larger than eps
\* between them share no identifier, and when each group has at least
\* minPoints points, pairwise within eps, the run gives each group one
\* identifier of its own and labels no point noise.
C7_ClustersAreChained ==
    Returned =>
        /\ \A a, b \in 1..N :
               Label(a) >= 1 /\ Label(a) = Label(b) => b \in Chained(a)
        /\ \A G \in SUBSET (1..N) :
               LET H == (1..N) \ G
               IN  /\ (G # {} /\ H # {} /\ \A g \in G, h \in H : Beyond(g, h))
                        => \A g \in G, h \in H :
                               Label(g) >= 1 => Label(g) # Label(h)
                   /\ TwoGroups(G, H)
                        => /\ \A k \in 1..N : Label(k) >= 1
                           /\ \A a, b \in G : Label(a) = Label(b)
                           /\ \A a, b \in H : Label(a) = Label(b)
                           /\ Cardinality(ClusterIds) = 2

\* Two groups of two points each, interleaved in the input.
C7_Witness ==
    /\ Returned
    /\ minPoints >= 2
    /\ \E G \in SUBSET (1..N) : TwoGroups(G, (1..N) \ G) /\ 1 \in G /\ 2 \notin G

\* C8: when all n points are pairwise within eps and n >= minPoints, every
\* point ends with identifier 1 and none is noise.
C8_SingleCluster ==
    (Returned /\ N >= minPoints /\ \A a, b \in 1..N : Within(a, b))
        => \A k \in 1..N : Label(k) = 1

\* At least minPoints points, not all at one place, pairwise within eps.
C8_Witness ==
    /\ Returned
    /\ N >= 3
    /\ N = minPoints
    /\ \A a, b \in 1..N : Within(a, b)
    /\ \E a, b \in 1..N : data[a] # data[b]

\* C9: the table has the input's length and order, record k referring to
\* input point k, and the run leaves the input points as they were.
C9_TableMirrorsInput ==
    /\ [](Len(metadata) = Len(data) /\ \A k \in 1..N : metadata[k].obj = k)
    /\ [][data' = data]_vars

\* A returned table for points that differ, every record changed by the run.
C9_Witness ==
    /\ Returned
    /\ N >= 3
    /\ \E a, b \in 1..N : data[a] # data[b]
    /\ \A k \in 1..N : metadata[k].visited /\ metadata[k].cluster # Unassigned
    /\ \E k \in 1..N : metadata[k] # NewRecord(N, k) /\ metadata[k].obj = k

\* C10: when k-means' run returns, for non-empty data, numMeans >= 1 and
\* iterationLimit >= 1, at least one step has been executed (round >= 1 and
\* the clusters hold every data index), and the last step left the means
\* unchanged or round equals iterationLimit.
C10_RunStepsUntilConverged ==
    (/\ kpc = "returned"
     /\ Len(kdata) >= 1
     /\ inputData.numMeans >= 1
     /\ inputData.iterationLimit >= 1)
        => /\ round >= 1
           /\ \A k \in Indices(kdata) :
                  \E c \in Indices(clusters) : k \in Range(clusters[c])
           /\ ~meansChanged \/ round = inputData.iterationLimit

\* The number of util.distance calls made for the unordered pair {a, b}.
PairCalls(a, b) == distCalls[<<a, b>>] + distCalls[<<b, a>>]

\* C11: across one whole run the distance of any unordered pair of distinct
\* points is computed at most once, over all calls of neighborhood.
C11_DistanceOncePerPair ==
    \A a, b \in 1..N : a # b => PairCalls(a, b) <= 1

\* C12: the scan processes a table entry (neighbour query, noise label or new
\* identifier) only if the point is not yet visited when the scan reaches it.
C12_ScanSkipsVisited ==
    last.op \in {"noise", "seed"} => ~last.wasVisited

\* C13: in every step a label changes only from unassigned to noise, from
\* unassigned to an identifier or from noise to an identifier; a label that
\* is an identifier keeps its value.
C13_LabelTransitions ==
    [][\A k \in 1..N :
          \/ Label(k)' = Label(k)
          \/ Label(k) = Unassigned /\ Label(k)' = Noise
          \/ Label(k) = Unassigned /\ Label(k)' >= 1
          \/ Label(k) = Noise /\ Label(k)' >= 1]_vars

\* What the cache holds for a computed pair: the outcome of `dist < eps`.
Outcome(a, b) == IF Within(a, b) THEN "true" ELSE "false"

\* C14, as claimed: after a query step, for every distance it computed, the
\* entries of both points for each other hold the result.
C14_BothEntriesCached ==
    last.called =>
        \A ti \in last.computed :
            /\ metadata[last.pt].neighbors[ti] = Outcome(last.pt, ti)
            /\ metadata[ti].neighbors[last.pt] = Outcome(last.pt, ti)

\* C14, amended: after a query step for point A, for every distance it
\* computed, A's entry for the other point B holds the result; B's entry for
\* A is not written and is still unknown.
C14_QueriedEntryCached ==
    last.called =>
        \A ti \in last.computed :
            /\ metadata[last.pt].neighbors[ti] = Outcome(last.pt, ti)
            /\ metadata[ti].neighbors[last.pt] = "undefined"

\* A query that computed a distance below eps and one not below eps.
C14_Witness ==
    /\ last.called
    /\ \E ti \in last.computed : Within(last.pt, ti)
    /\ \E ti \in last.computed : ~Within(last.pt, ti)

\* C15: the neighbour relation is symmetric in every state: when A's cache
\* records B within the threshold, B's cache does not record A as not within
\* it, B's test against A succeeds too and a query for B returns A; no pair
\* has one direction cached within and the other cached not within.
C15_CacheSymmetric ==
    \A a, b \in 1..N :
        /\ metadata[a].neighbors[b] = "true"
             => /\ metadata[b].neighbors[a] # "false"
                /\ Within(b, a)
                /\ a \in Range(neighborhood(metadata, data, b, b, eps).neigh)
        /\ metadata[a].neighbors[b] = "false"
             => /\ metadata[b].neighbors[a] # "true"
                /\ ~Within(b, a)

\* A query for B that took A from A's cache, without computing.
C15_Witness ==
    /\ last.called
    /\ \E a \in Range(last.neigh) \ {last.pt} :
           /\ metadata[a].neighbors[last.pt] = "true"
           /\ a \notin last.computed

\* C16, as claimed: every point's cache entry for its own index is "within
\* threshold".
C16_SelfEntryTrue ==
    \A k \in 1..N : metadata[k].neighbors[k] = "true"

\* C16, amended: a point's cache entry for its own index is never written
\* (it stays unknown); every query returns the point itself all the same, by
\* the test of the index.
C16_SelfEntryUnset ==
    /\ \A k \in 1..N : metadata[k].neighbors[k] = "undefined"
    /\ last.called => last.i \in Range(last.neigh)

\* A query has been made for every point of a table of three or more.
C16_Witness ==
    /\ Returned
    /\ N >= 3
    /\ \A k \in 1..N : metadata[k].visited
    /\ \E k \in 1..N : \E j \in 1..N : metadata[k].neighbors[j] # "undefined"

Reached == Top(State).neigh[Top(State).pos]

C20_IdentifierNotReplaced ==
    [][\A k \in 1..N :
          Label(k) >= 1 /\ Label(k)' >= 1 => Label(k)' = Label(k)]_vars

\* The expansion of a later cluster has reached a point that carries the
\* identifier of an earlier one, and the point has kept it.
C20_Witness ==
    /\ stack # <<>>
    /\ last.op = "skip"
    /\ last.before >= 1
    /\ Top(State).cluster > last.before
    /\ Label(last.pt) = last.before

=============================================================================
